---- MODULE Spec2Model ----
(***************************************************************************)
(* Generic native class attribute getters and setters of mypyc's runtime   *)
(* (mypyc/lib-rt/attr.c).  One instance record with two attributes, "a"    *)
(* and "b", which share one 32-bit definedness bitmap word.  Attribute "a" *)
(* carries an arbitrary descriptor (CPyAttr_Context); attribute "b" is an  *)
(* int32 sibling using another bit of the same bitmap word.                *)
(***************************************************************************)
EXTENDS Integers, Sequences, FiniteSets, TLC

(***************************************************************************)
(* Host integers.  A host integer (PyLongObject) is a sign and a magnitude *)
(* in little-endian digits of 16 bits, without leading zero digits.        *)
(* Machine integers of 16/32/64 bits are two's complement words of 1/2/4   *)
(* digits of 16 bits.                                                      *)
(***************************************************************************)
Base == 2 ^ 16

HalfBase == 2 ^ 15

HostInt(neg, mag) == [neg |-> neg, mag |-> mag]

Zero == HostInt(FALSE, <<>>)

RECURSIVE Zeros(_)
Zeros(n) == IF n = 0 THEN <<>> ELSE <<0>> \o Zeros(n - 1)

RECURSIVE Normalize(_)
Normalize(s) ==
    IF s = <<>> THEN <<>>
    ELSE IF s[Len(s)] = 0 THEN Normalize(SubSeq(s, 1, Len(s) - 1))
    ELSE s

RECURSIVE AddOne(_)
AddOne(s) ==
    IF s = <<>> THEN <<>>
    ELSE IF s[1] = Base - 1 THEN <<0>> \o AddOne(Tail(s))
    ELSE <<s[1] + 1>> \o Tail(s)

Invert(s) == [i \in 1 .. Len(s) |-> (Base - 1) - s[i]]

Negate(s) == AddOne(Invert(s))

Pad(mag, n) == mag \o Zeros(n - Len(mag))

AllZeroBelow(mag, n) == \A i \in 1 .. (n - 1) : mag[i] = 0

\* v lies in [-top * Base^(n-1), top * Base^(n-1) - 1]
FitsSigned(v, n, top) ==
    \/ Len(v.mag) < n
    \/ /\ Len(v.mag) = n
       /\ \/ v.mag[n] < top
          \/ v.neg /\ v.mag[n] = top /\ AllZeroBelow(v.mag, n)

\* two's complement word of n digits holding the in-range host integer v
ToWord(v, n) == IF v.neg THEN Negate(Pad(v.mag, n)) ELSE Pad(v.mag, n)

\* host integer held by a two's complement word
FromWord(w) ==
    IF w[Len(w)] >= HalfBase
    THEN HostInt(TRUE, Normalize(Negate(w)))
    ELSE HostInt(FALSE, Normalize(w))

(***************************************************************************)
(* Host objects.  A pointer is the name of the object it points to; NULL   *)
(* is the null pointer.  A double is represented by twice its value, so    *)
(* 1.5 is 3 and -113.0 is -226.  bool is a subclass of int.                *)
(***************************************************************************)
NULL == "NULL"

PyObj(t, iv, fv) == [type |-> t, ival |-> iv, fval |-> fv]

Heap ==
    [None    |-> PyObj("NoneType", Zero, 0),
     str_hi  |-> PyObj("str", Zero, 0),
     True    |-> PyObj("bool", HostInt(FALSE, <<1>>), 0),
     False   |-> PyObj("bool", Zero, 0),
     f_1_5   |-> PyObj("float", Zero, 3),
     f_m113  |-> PyObj("float", Zero, -226),
     f_m1    |-> PyObj("float", Zero, -2),
     i_5     |-> PyObj("int", HostInt(FALSE, <<5>>), 0),
     i_m113  |-> PyObj("int", HostInt(TRUE, <<113>>), 0),
     i_2p15  |-> PyObj("int", HostInt(FALSE, <<HalfBase>>), 0),
     i_2p31  |-> PyObj("int", HostInt(FALSE, <<0, HalfBase>>), 0),
     i_2p63  |-> PyObj("int", HostInt(FALSE, <<0, 0, 0, HalfBase>>), 0),
     tuple_0 |-> PyObj("tuple", Zero, 0),
     list_0  |-> PyObj("list", Zero, 0),
     dict_0  |-> PyObj("dict", Zero, 0),
     set_0   |-> PyObj("set", Zero, 0)]

Objects == DOMAIN Heap

Py_None == "None"

Py_True == "True"

Py_False == "False"

\* PyObject_TypeCheck(o, type): exact type or subtype
PyObject_TypeCheck(o, type) ==
    \/ Heap[o].type = type
    \/ Heap[o].type = "bool" /\ type = "int"

PyLong_Check(o) == PyObject_TypeCheck(o, "int")

PyBool_Check(o) == PyObject_TypeCheck(o, "bool")

PyFloat_Check(o) == PyObject_TypeCheck(o, "float")

\* PyFloat_AsDouble on an object that passed PyFloat_Check reads ob_fval
PyFloat_AsDouble(o) ==
    IF PyFloat_Check(o)
    THEN [val |-> Heap[o].fval, err |-> FALSE]
    ELSE [val |-> -2, err |-> TRUE]

(***************************************************************************)
(* Sentinels.                                                              *)
(***************************************************************************)
CPY_FLOAT_ERROR == 2 * (-113)

CPY_LL_INT_ERROR == HostInt(TRUE, <<113>>)

\* CPY_LL_INT_ERROR converted to the integer type of n digits
LL_INT_ERROR(n) == ToWord(CPY_LL_INT_ERROR, n)

\* A tagged word: a short integer (value << 1) or a pointer with the low
\* tag bit set.  val is the Py_ssize_t that the short form holds.
TaggedShort(w) == [long |-> FALSE, ptr |-> NULL, val |-> w]

\* digits of the Py_ssize_t / int64_t
WordDigits == 4

TaggedLong(p) == [long |-> TRUE, ptr |-> p, val |-> Zeros(WordDigits)]

CPY_INT_TAG == TaggedLong(NULL)

\* top digit bound of a short tagged integer: |value| <= 2^62
TaggedTop == 2 ^ 14

CPyTagged_CheckLong(x) == x.long

\* CPyTagged_FromObject: boxed form (with a new reference) when the value
\* does not fit a short tagged integer
CPyTagged_FromObject(o) ==
    IF ~FitsSigned(Heap[o].ival, WordDigits, TaggedTop)
    THEN [word |-> TaggedLong(o), incref |-> {o}]
    ELSE [word |-> TaggedShort(ToWord(Heap[o].ival, WordDigits)), incref |-> {}]

\* CPyLong_AsInt16/32/64: the value, or CPY_LL_INT_ERROR with OverflowError
CPyLong_AsIntN(o, n) ==
    IF FitsSigned(Heap[o].ival, n, HalfBase)
    THEN [val |-> ToWord(Heap[o].ival, n), err |-> FALSE]
    ELSE [val |-> LL_INT_ERROR(n), err |-> TRUE]

CPyLong_AsInt16(o) == CPyLong_AsIntN(o, 1)

CPyLong_AsInt32(o) == CPyLong_AsIntN(o, 2)

CPyLong_AsInt64(o) == CPyLong_AsIntN(o, 4)

(***************************************************************************)
(* Getter results: a new reference owned by the caller, or NULL.           *)
(***************************************************************************)
NullResult == [ref |-> NULL, type |-> "", ival |-> Zero, fval |-> 0]

\* Py_NewRef(o) returned to the caller
ObjResult(o) ==
    [ref |-> o, type |-> Heap[o].type, ival |-> Heap[o].ival, fval |-> Heap[o].fval]

PyFloat_FromDouble(d) == [ref |-> "new", type |-> "float", ival |-> Zero, fval |-> d]

PyLong_FromLong(w) == [ref |-> "new", type |-> "int", ival |-> FromWord(w), fval |-> 0]

\* the host's equality between a getter result and an object
HostEq(r, o) ==
    IF r.ref = NULL THEN FALSE
    ELSE IF r.ref # "new" THEN r.ref = o
    ELSE IF r.type = "float"
    THEN Heap[o].type = "float" /\ Heap[o].fval = r.fval
    ELSE Heap[o].type \in {"int", "bool"} /\ Heap[o].ival = r.ival

(***************************************************************************)
(* The instance record and the reference counts.                           *)
(*   st.slot[offset]  the primary slot of the attribute at that offset     *)
(*   st.bitmap        the 32-bit bitmap word, as the set of its 1 bits     *)
(*   st.refcnt[o]     ob_refcnt of o less the references owned by callers  *)
(*                    (arguments are borrowed, getter results are owned by *)
(*                    the caller)                                          *)
(* A context is the CPyAttr_Context of one attribute, with the accessor    *)
(* pair it is bound to (rep).                                              *)
(***************************************************************************)
Py_INCREF(refcnt, o) == [refcnt EXCEPT ![o] = @ + 1]

Py_DECREF(refcnt, o) == [refcnt EXCEPT ![o] = @ - 1]

\* without the release
Py_XDECREF_Skip(refcnt, p) == refcnt

Py_XDECREF(refcnt, p) == IF p = NULL THEN refcnt ELSE Py_DECREF(refcnt, p)

\* CPyTagged_DECREF: releases the boxed object of a long tagged word
CPyTagged_DECREF(refcnt, x) ==
    IF CPyTagged_CheckLong(x) THEN Py_DECREF(refcnt, x.ptr) ELSE refcnt

\* CPyTagged_AsObject: the boxed object with a new reference, or a new int
CPyTagged_AsObject(x) ==
    IF CPyTagged_CheckLong(x) THEN ObjResult(x.ptr) ELSE PyLong_FromLong(x.val)

\* the PyTypeObject the boxed setter resolves from boxed_setter.type
\* ("" is the NULL type of CPyAttr_ANY)
ResolveType(tag) ==
    CASE tag = "CPyAttr_UNICODE" -> "str"
      [] tag = "CPyAttr_LONG" -> "int"
      [] tag = "CPyAttr_BOOL" -> "bool"
      [] tag = "CPyAttr_FLOAT" -> "float"
      [] tag = "CPyAttr_TUPLE" -> "tuple"
      [] tag = "CPyAttr_LIST" -> "list"
      [] tag = "CPyAttr_DICT" -> "dict"
      [] tag = "CPyAttr_SET" -> "set"
      [] tag = "CPyAttr_ANY" -> ""

\* NDEBUG: whether the build compiles the assert away
CPyAttr_UndefinedError(context, NDEBUG) ==
    [res |-> NullResult,
     err |-> IF context.always_defined /\ ~NDEBUG THEN "abort" ELSE "undefined"]

CPyAttr_UndeletableError(st) == [ret |-> -1, err |-> "undeletable", st |-> st]

CPy_TypeError(st) == [ret |-> -1, err |-> "TypeError", st |-> st]

\* the clearing of the early revision: & mask instead of & ~mask
set_definedness_in_bitmap_mask(st, context, defined) ==
    IF defined
    THEN [st EXCEPT !.bitmap = @ \cup context.bitmap.mask]
    ELSE [st EXCEPT !.bitmap = @ \cap context.bitmap.mask]

\* = instead of |= when setting the bit
set_definedness_in_bitmap_assign(st, context, defined) ==
    IF defined
    THEN [st EXCEPT !.bitmap = context.bitmap.mask]
    ELSE [st EXCEPT !.bitmap = @ \cap ((0 .. 31) \ context.bitmap.mask)]

\* |= whatever defined says
set_definedness_in_bitmap_or(st, context, defined) ==
    [st EXCEPT !.bitmap = @ \cup context.bitmap.mask]

set_definedness_in_bitmap(st, context, defined) ==
    IF defined
    THEN [st EXCEPT !.bitmap = @ \cup context.bitmap.mask]
    ELSE [st EXCEPT !.bitmap = @ \cap ((0 .. 31) \ context.bitmap.mask)]

is_undefined_via_bitmap(st, context) ==
    (st.bitmap \cap context.bitmap.mask) = {}

(***************************************************************************)
(* Getters: [res, err, bitmap_read]; bitmap_read tells whether the call    *)
(* read the bitmap word.                                                   *)
(***************************************************************************)
Returned(r, read) == [res |-> r, err |-> "", bitmap_read |-> read]

Raised(e, read) == [res |-> e.res, err |-> e.err, bitmap_read |-> read]

CPyAttr_GetterPyObject(st, context, NDEBUG) ==
    LET value == st.slot[context.offset]
    IN  IF value = NULL
        THEN Raised(CPyAttr_UndefinedError(context, NDEBUG), FALSE)
        ELSE Returned(ObjResult(value), FALSE)

CPyAttr_GetterTagged(st, context, NDEBUG) ==
    LET value == st.slot[context.offset]
    IN  IF value = CPY_INT_TAG
        THEN Raised(CPyAttr_UndefinedError(context, NDEBUG), FALSE)
        ELSE Returned(CPyTagged_AsObject(value), FALSE)

CPyAttr_GetterBool(st, context, NDEBUG) ==
    LET value == st.slot[context.offset]
    IN  IF value = 2
        THEN Raised(CPyAttr_UndefinedError(context, NDEBUG), FALSE)
        ELSE Returned(ObjResult(IF value # 0 THEN Py_True ELSE Py_False), FALSE)

CPyAttr_GetterFloat(st, context, NDEBUG) ==
    LET value == st.slot[context.offset]
        read  == value = CPY_FLOAT_ERROR /\ ~context.always_defined
    IN  IF read /\ is_undefined_via_bitmap(st, context)
        THEN Raised(CPyAttr_UndefinedError(context, NDEBUG), read)
        ELSE Returned(PyFloat_FromDouble(value), read)

\* without the always_defined test
GetterIntN_NoAlwaysDefined(st, context, NDEBUG, n) ==
    LET value == st.slot[context.offset]
        read  == value = LL_INT_ERROR(n)
    IN  IF read /\ is_undefined_via_bitmap(st, context)
        THEN Raised(CPyAttr_UndefinedError(context, NDEBUG), read)
        ELSE Returned(PyLong_FromLong(value), read)

GetterIntN(st, context, NDEBUG, n) ==
    LET value == st.slot[context.offset]
        read  == value = LL_INT_ERROR(n) /\ ~context.always_defined
    IN  IF read /\ is_undefined_via_bitmap(st, context)
        THEN Raised(CPyAttr_UndefinedError(context, NDEBUG), read)
        ELSE Returned(PyLong_FromLong(value), read)

CPyAttr_GetterInt16(st, context, NDEBUG) == GetterIntN(st, context, NDEBUG, 1)

CPyAttr_GetterInt32(st, context, NDEBUG) == GetterIntN(st, context, NDEBUG, 2)

CPyAttr_GetterInt64(st, context, NDEBUG) == GetterIntN(st, context, NDEBUG, 4)

(***************************************************************************)
(* Setters: [ret, err, st]; value = NULL is a deletion.                    *)
(***************************************************************************)
Ok(st) == [ret |-> 0, err |-> "", st |-> st]

\* a conversion failed with its error already set
Propagated(st) == [ret |-> -1, err |-> "OverflowError", st |-> st]

\* Py_XSETREF(*attr, Py_NewRef(value)): new reference, store, release old
Py_XSETREF_NewRef(st, offset, value) ==
    LET rc1 == Py_INCREF(st.refcnt, value)
        old == st.slot[offset]
    IN  [st EXCEPT !.slot[offset] = value, !.refcnt = Py_XDECREF(rc1, old)]

\* nulls the slot without releasing the old reference
Py_CLEAR_NoRelease(st, offset) == [st EXCEPT !.slot[offset] = NULL]

\* Py_CLEAR(*attr): null the slot, release old
Py_CLEAR(st, offset) ==
    LET old == st.slot[offset]
    IN  IF old = NULL THEN st
        ELSE [st EXCEPT !.slot[offset] = NULL, !.refcnt = Py_DECREF(@, old)]

\* !optional && value != Py_None instead of ||
CPyAttr_SetterPyObject_OptionalAnd(st, value, context) ==
    IF value = NULL /\ ~context.deletable THEN CPyAttr_UndeletableError(st)
    ELSE IF value # NULL
    THEN LET type == ResolveType(context.boxed_setter.type)
         IN  IF /\ type # "" /\ ~PyObject_TypeCheck(value, type)
                /\ (~context.boxed_setter.optional /\ value # Py_None)
             THEN CPy_TypeError(st)
             ELSE Ok(Py_XSETREF_NewRef(st, context.offset, value))
    ELSE Ok(Py_CLEAR(st, context.offset))

\* a deletion that returns 0 without clearing the slot
CPyAttr_SetterPyObject_NoClear(st, value, context) ==
    IF value = NULL /\ ~context.deletable THEN CPyAttr_UndeletableError(st)
    ELSE IF value # NULL
    THEN LET type == ResolveType(context.boxed_setter.type)
         IN  IF /\ type # "" /\ ~PyObject_TypeCheck(value, type)
                /\ (~context.boxed_setter.optional \/ value # Py_None)
             THEN CPy_TypeError(st)
             ELSE Ok(Py_XSETREF_NewRef(st, context.offset, value))
    ELSE Ok(st)

CPyAttr_SetterPyObject(st, value, context) ==
    IF value = NULL /\ ~context.deletable THEN CPyAttr_UndeletableError(st)
    ELSE IF value # NULL
    THEN LET type == ResolveType(context.boxed_setter.type)
         IN  IF /\ type # "" /\ ~PyObject_TypeCheck(value, type)
                /\ (~context.boxed_setter.optional \/ value # Py_None)
             THEN CPy_TypeError(st)
             ELSE Ok(Py_XSETREF_NewRef(st, context.offset, value))
    ELSE Ok(Py_CLEAR(st, context.offset))

\* if (*attr != CPY_INT_TAG) CPyTagged_DECREF(*attr);
ReleaseTagged(st, offset) ==
    IF st.slot[offset] # CPY_INT_TAG
    THEN [st EXCEPT !.refcnt = CPyTagged_DECREF(@, st.slot[offset])]
    ELSE st

\* without the deletable check
CPyAttr_SetterTagged_NoDeletableCheck(st, value, context) ==
    IF value # NULL
    THEN IF ~PyLong_Check(value) THEN CPy_TypeError(st)
         ELSE LET st1 == ReleaseTagged(st, context.offset)
                  new == CPyTagged_FromObject(value)
                  rc2 == IF new.incref = {} THEN st1.refcnt
                         ELSE Py_INCREF(st1.refcnt, value)
              IN  Ok([st1 EXCEPT !.slot[context.offset] = new.word, !.refcnt = rc2])
    ELSE LET st1 == ReleaseTagged(st, context.offset)
         IN  Ok([st1 EXCEPT !.slot[context.offset] = CPY_INT_TAG])

CPyAttr_SetterTagged(st, value, context) ==
    IF value = NULL /\ ~context.deletable THEN CPyAttr_UndeletableError(st)
    ELSE IF value # NULL
    THEN IF ~PyLong_Check(value) THEN CPy_TypeError(st)
         ELSE LET st1 == ReleaseTagged(st, context.offset)
                  new == CPyTagged_FromObject(value)
                  rc2 == IF new.incref = {} THEN st1.refcnt
                         ELSE Py_INCREF(st1.refcnt, value)
              IN  Ok([st1 EXCEPT !.slot[context.offset] = new.word, !.refcnt = rc2])
    ELSE LET st1 == ReleaseTagged(st, context.offset)
         IN  Ok([st1 EXCEPT !.slot[context.offset] = CPY_INT_TAG])

\* marks the attribute defined in the bitmap, as the float setter does
CPyAttr_SetterBool_Bitmap(st, value, context) ==
    IF value = NULL /\ ~context.deletable THEN CPyAttr_UndeletableError(st)
    ELSE IF value # NULL
    THEN IF ~PyBool_Check(value) THEN CPy_TypeError(st)
         ELSE Ok(set_definedness_in_bitmap(
                     [st EXCEPT !.slot[context.offset] = IF value = Py_True THEN 1 ELSE 0],
                     context, TRUE))
    ELSE Ok([st EXCEPT !.slot[context.offset] = 2])

\* stores value != NULL instead of value == Py_True
CPyAttr_SetterBool_NotNull(st, value, context) ==
    IF value = NULL /\ ~context.deletable THEN CPyAttr_UndeletableError(st)
    ELSE IF value # NULL
    THEN IF ~PyBool_Check(value) THEN CPy_TypeError(st)
         ELSE Ok([st EXCEPT !.slot[context.offset] = 1])
    ELSE Ok([st EXCEPT !.slot[context.offset] = 2])

CPyAttr_SetterBool(st, value, context) ==
    IF value = NULL /\ ~context.deletable THEN CPyAttr_UndeletableError(st)
    ELSE IF value # NULL
    THEN IF ~PyBool_Check(value) THEN CPy_TypeError(st)
         ELSE Ok([st EXCEPT !.slot[context.offset] = IF value = Py_True THEN 1 ELSE 0])
    ELSE Ok([st EXCEPT !.slot[context.offset] = 2])

\* a deletion that sets the bitmap bit instead of clearing it
CPyAttr_SetterFloat_DeleteSetsBit(st, value, context) ==
    IF value = NULL /\ ~context.deletable THEN CPyAttr_UndeletableError(st)
    ELSE IF value # NULL
    THEN IF ~PyFloat_Check(value) THEN CPy_TypeError(st)
         ELSE LET tmp == PyFloat_AsDouble(value)
                  st1 == [st EXCEPT !.slot[context.offset] = tmp.val]
              IN  IF tmp.val = -2 /\ tmp.err THEN Propagated(st)
                  ELSE IF tmp.val = CPY_FLOAT_ERROR
                  THEN Ok(set_definedness_in_bitmap(st1, context, TRUE))
                  ELSE Ok(st1)
    ELSE Ok(set_definedness_in_bitmap(
                [st EXCEPT !.slot[context.offset] = CPY_FLOAT_ERROR], context, TRUE))

\* without the bitmap update after storing CPY_FLOAT_ERROR
CPyAttr_SetterFloat_NoBit(st, value, context) ==
    IF value = NULL /\ ~context.deletable THEN CPyAttr_UndeletableError(st)
    ELSE IF value # NULL
    THEN IF ~PyFloat_Check(value) THEN CPy_TypeError(st)
         ELSE LET tmp == PyFloat_AsDouble(value)
                  st1 == [st EXCEPT !.slot[context.offset] = tmp.val]
              IN  IF tmp.val = -2 /\ tmp.err THEN Propagated(st)
                  ELSE Ok(st1)
    ELSE Ok(set_definedness_in_bitmap(
                [st EXCEPT !.slot[context.offset] = CPY_FLOAT_ERROR], context, FALSE))

CPyAttr_SetterFloat(st, value, context) ==
    IF value = NULL /\ ~context.deletable THEN CPyAttr_UndeletableError(st)
    ELSE IF value # NULL
    THEN IF ~PyFloat_Check(value) THEN CPy_TypeError(st)
         ELSE LET tmp == PyFloat_AsDouble(value)
                  st1 == [st EXCEPT !.slot[context.offset] = tmp.val]
              IN  IF tmp.val = -2 /\ tmp.err THEN Propagated(st)
                  ELSE IF tmp.val = CPY_FLOAT_ERROR
                  THEN Ok(set_definedness_in_bitmap(st1, context, TRUE))
                  ELSE Ok(st1)
    ELSE Ok(set_definedness_in_bitmap(
                [st EXCEPT !.slot[context.offset] = CPY_FLOAT_ERROR], context, FALSE))

\* stores tmp before the narrowing error is checked
SetterIntN_StoreFirst(st, value, context, n) ==
    IF value = NULL /\ ~context.deletable THEN CPyAttr_UndeletableError(st)
    ELSE IF value # NULL
    THEN IF ~PyLong_Check(value) THEN CPy_TypeError(st)
         ELSE LET tmp == CPyLong_AsIntN(value, n)
                  st1 == [st EXCEPT !.slot[context.offset] = tmp.val]
              IN  IF tmp.val = LL_INT_ERROR(n) /\ tmp.err THEN Propagated(st1)
                  ELSE IF tmp.val = LL_INT_ERROR(n)
                  THEN Ok(set_definedness_in_bitmap(st1, context, TRUE))
                  ELSE Ok(st1)
    ELSE Ok(set_definedness_in_bitmap(
                [st EXCEPT !.slot[context.offset] = LL_INT_ERROR(n)], context, FALSE))

SetterIntN(st, value, context, n) ==
    IF value = NULL /\ ~context.deletable THEN CPyAttr_UndeletableError(st)
    ELSE IF value # NULL
    THEN IF ~PyLong_Check(value) THEN CPy_TypeError(st)
         ELSE LET tmp == CPyLong_AsIntN(value, n)
                  st1 == [st EXCEPT !.slot[context.offset] = tmp.val]
              IN  IF tmp.val = LL_INT_ERROR(n) /\ tmp.err THEN Propagated(st)
                  ELSE IF tmp.val = LL_INT_ERROR(n)
                  THEN Ok(set_definedness_in_bitmap(st1, context, TRUE))
                  ELSE Ok(st1)
    ELSE Ok(set_definedness_in_bitmap(
                [st EXCEPT !.slot[context.offset] = LL_INT_ERROR(n)], context, FALSE))

CPyAttr_SetterInt16(st, value, context) == SetterIntN(st, value, context, 1)

CPyAttr_SetterInt32(st, value, context) == SetterIntN(st, value, context, 2)

CPyAttr_SetterInt64(st, value, context) == SetterIntN(st, value, context, 4)

(***************************************************************************)
(* The state machine: one instance, its attributes and their descriptors.  *)
(***************************************************************************)
VARIABLES
    context,    \* context[x]: the CPyAttr_Context of attribute x (never changes)
    slot,       \* slot[offset]: primary slots of the instance
    bitmap,     \* the bitmap word of the instance
    refcnt,     \* refcnt[o]: see above
    out,        \* the last accessor call and its outcome
    last,       \* last[x]: the value of the last successful setter call on x
                \* (NULL: none since construction, or a deletion)
    thr         \* thr[t]: the setter call that thread t is executing, when
                \* the calls are followed statement by statement

vars == <<context, slot, bitmap, refcnt, out, last, thr>>

Threads == {"t1", "t2"}

\* a thread that makes no call
Off ==
    [pc |-> "off", attr |-> "a", value |-> NULL, old |-> NULL, word |-> {},
     ret |-> 0, err |-> "", stale |-> FALSE]

Attrs == {"a", "b"}

Reps == {"PyObject", "Tagged", "Bool", "Float", "Int16", "Int32", "Int64"}

BitmapReps == {"Float", "Int16", "Int32", "Int64"}

TypeTags ==
    {"CPyAttr_UNICODE", "CPyAttr_LONG", "CPyAttr_BOOL", "CPyAttr_FLOAT",
     "CPyAttr_TUPLE", "CPyAttr_LIST", "CPyAttr_DICT", "CPyAttr_SET", "CPyAttr_ANY"}

Context(name, rep, ad, del, tag, opt, bit) ==
    [attr_name |-> name, offset |-> name, rep |-> rep,
     always_defined |-> ad, deletable |-> del,
     bitmap |-> [offset |-> 0, mask |-> {bit}],
     boxed_setter |-> [type |-> tag, optional |-> opt]]

\* descriptors of attribute "a": every accessor pair and every flag
ContextsA ==
    {Context("a", "PyObject", ad, del, tag, opt, 0) :
        ad \in BOOLEAN, del \in BOOLEAN, tag \in TypeTags, opt \in BOOLEAN}
    \cup
    {Context("a", rep, ad, del, "CPyAttr_ANY", FALSE, 0) :
        rep \in Reps \ {"PyObject"}, ad \in BOOLEAN, del \in BOOLEAN}

\* descriptor of the sibling "b": an int32 on the next bit of the same word
ContextB == Context("b", "Int32", FALSE, TRUE, "CPyAttr_ANY", FALSE, 1)

IntDigits(rep) ==
    CASE rep = "Int16" -> 1 [] rep = "Int32" -> 2 [] rep = "Int64" -> 4

\* the undefined encoding of a primary slot
Sentinel(rep) ==
    CASE rep = "PyObject" -> NULL
      [] rep = "Tagged" -> CPY_INT_TAG
      [] rep = "Bool" -> 2
      [] rep = "Float" -> CPY_FLOAT_ERROR
      [] OTHER -> LL_INT_ERROR(IntDigits(rep))

St == [slot |-> slot, bitmap |-> bitmap, refcnt |-> refcnt]

\* the setter and the getter an attribute is bound to
Setter(st, value, c) ==
    CASE c.rep = "PyObject" -> CPyAttr_SetterPyObject(st, value, c)
      [] c.rep = "Tagged" -> CPyAttr_SetterTagged(st, value, c)
      [] c.rep = "Bool" -> CPyAttr_SetterBool(st, value, c)
      [] c.rep = "Float" -> CPyAttr_SetterFloat(st, value, c)
      [] c.rep = "Int16" -> CPyAttr_SetterInt16(st, value, c)
      [] c.rep = "Int32" -> CPyAttr_SetterInt32(st, value, c)
      [] c.rep = "Int64" -> CPyAttr_SetterInt64(st, value, c)

Getter(st, c, NDEBUG) ==
    CASE c.rep = "PyObject" -> CPyAttr_GetterPyObject(st, c, NDEBUG)
      [] c.rep = "Tagged" -> CPyAttr_GetterTagged(st, c, NDEBUG)
      [] c.rep = "Bool" -> CPyAttr_GetterBool(st, c, NDEBUG)
      [] c.rep = "Float" -> CPyAttr_GetterFloat(st, c, NDEBUG)
      [] c.rep = "Int16" -> CPyAttr_GetterInt16(st, c, NDEBUG)
      [] c.rep = "Int32" -> CPyAttr_GetterInt32(st, c, NDEBUG)
      [] c.rep = "Int64" -> CPyAttr_GetterInt64(st, c, NDEBUG)

\* the attribute of descriptor c is in its undefined encoding
EncodesUndefined(st, c) ==
    /\ st.slot[c.offset] = Sentinel(c.rep)
    /\ c.rep \in BitmapReps => is_undefined_via_bitmap(st, c)

\* was_undefined: the attribute was in its undefined encoding at the call
NoCall ==
    [fn |-> "init", attr |-> "a", del |-> FALSE, ret |-> 0, err |-> "",
     res |-> NullResult, bitmap_read |-> FALSE, was_undefined |-> FALSE]

\* the instance as allocated: every attribute undefined, no bit set
Allocated(ctx) ==
    [slot |-> [x \in Attrs |-> Sentinel(ctx[x].rep)],
     bitmap |-> {},
     refcnt |-> [o \in Objects |-> 0]]

\* Construction leaves an attribute undefined unless it is always_defined,
\* which the constructor initialises with a value its setter accepts.
Init ==
    /\ context \in {ctx \in [Attrs -> ContextsA \cup {ContextB}] :
                        ctx["a"] \in ContextsA /\ ctx["b"] = ContextB}
    /\ \E v \in Objects \cup {NULL} :
          LET r == Setter(Allocated(context), v, context["a"])
          IN  /\ (v # NULL) = context["a"].always_defined
              /\ context["a"].always_defined => r.ret = 0
              /\ slot = IF v = NULL THEN Allocated(context).slot ELSE r.st.slot
              /\ bitmap = IF v = NULL THEN {} ELSE r.st.bitmap
              /\ refcnt = IF v = NULL THEN Allocated(context).refcnt ELSE r.st.refcnt
              /\ last = [x \in Attrs |-> IF x = "a" THEN v ELSE NULL]
    /\ out = NoCall
    /\ thr = [t \in Threads |-> Off]

aborted == out.err = "abort"

SetterCall(x, value, r) ==
    /\ ~aborted
    /\ slot' = r.st.slot
    /\ bitmap' = r.st.bitmap
    /\ refcnt' = r.st.refcnt
    /\ out' = [fn |-> "set", attr |-> x, del |-> (value = NULL), ret |-> r.ret,
               err |-> r.err, res |-> NullResult, bitmap_read |-> FALSE,
               was_undefined |-> EncodesUndefined(St, context[x])]
    /\ last' = IF r.ret = 0 THEN [last EXCEPT ![x] = value] ELSE last
    /\ UNCHANGED <<context, thr>>

GetterCall(x, r) ==
    /\ ~aborted
    /\ out' = [fn |-> "get", attr |-> x, del |-> FALSE,
               ret |-> IF r.res.ref = NULL THEN -1 ELSE 0,
               err |-> r.err, res |-> r.res, bitmap_read |-> r.bitmap_read,
               was_undefined |-> EncodesUndefined(St, context[x])]
    /\ UNCHANGED <<context, slot, bitmap, refcnt, last, thr>>

Bound(rep) == {x \in Attrs : context[x].rep = rep}

Values == Objects \cup {NULL}

GetPyObject ==
    \E x \in Bound("PyObject"), NDEBUG \in BOOLEAN :
        GetterCall(x, CPyAttr_GetterPyObject(St, context[x], NDEBUG))

GetTagged ==
    \E x \in Bound("Tagged"), NDEBUG \in BOOLEAN :
        GetterCall(x, CPyAttr_GetterTagged(St, context[x], NDEBUG))

GetBool ==
    \E x \in Bound("Bool"), NDEBUG \in BOOLEAN :
        GetterCall(x, CPyAttr_GetterBool(St, context[x], NDEBUG))

GetFloat ==
    \E x \in Bound("Float"), NDEBUG \in BOOLEAN :
        GetterCall(x, CPyAttr_GetterFloat(St, context[x], NDEBUG))

GetInt16 ==
    \E x \in Bound("Int16"), NDEBUG \in BOOLEAN :
        GetterCall(x, CPyAttr_GetterInt16(St, context[x], NDEBUG))

GetInt32 ==
    \E x \in Bound("Int32"), NDEBUG \in BOOLEAN :
        GetterCall(x, CPyAttr_GetterInt32(St, context[x], NDEBUG))

GetInt64 ==
    \E x \in Bound("Int64"), NDEBUG \in BOOLEAN :
        GetterCall(x, CPyAttr_GetterInt64(St, context[x], NDEBUG))

SetPyObject ==
    \E x \in Bound("PyObject"), value \in Values :
        SetterCall(x, value, CPyAttr_SetterPyObject(St, value, context[x]))

SetTagged ==
    \E x \in Bound("Tagged"), value \in Values :
        SetterCall(x, value, CPyAttr_SetterTagged(St, value, context[x]))

SetBool ==
    \E x \in Bound("Bool"), value \in Values :
        SetterCall(x, value, CPyAttr_SetterBool(St, value, context[x]))

SetFloat ==
    \E x \in Bound("Float"), value \in Values :
        SetterCall(x, value, CPyAttr_SetterFloat(St, value, context[x]))

SetInt16 ==
    \E x \in Bound("Int16"), value \in Values :
        SetterCall(x, value, CPyAttr_SetterInt16(St, value, context[x]))

SetInt32 ==
    \E x \in Bound("Int32"), value \in Values :
        SetterCall(x, value, CPyAttr_SetterInt32(St, value, context[x]))

SetInt64 ==
    \E x \in Bound("Int64"), value \in Values :
        SetterCall(x, value, CPyAttr_SetterInt64(St, value, context[x]))

Next ==
    \/ GetPyObject \/ GetTagged \/ GetBool \/ GetFloat
    \/ GetInt16 \/ GetInt32 \/ GetInt64
    \/ SetPyObject \/ SetTagged \/ SetBool \/ SetFloat
    \/ SetInt16 \/ SetInt32 \/ SetInt64

Spec == Init /\ [][Next]_vars

(***************************************************************************)
(* Properties.                                                             *)
(***************************************************************************)
StNext == [slot |-> slot', bitmap |-> bitmap', refcnt |-> refcnt']

\* the getter of attribute x raises undefined-access in the current state
RaisesUndefined(x) == Getter(St, context[x], TRUE).err = "undefined"

BitIsZero(x) == is_undefined_via_bitmap(St, context[x])

HoldsSentinel(x) == slot[context[x].offset] = Sentinel(context[x].rep)

BitmapAttrs == {x \in Attrs : context[x].rep \in BitmapReps}

SentinelAttrs == {x \in Attrs : context[x].rep \in {"PyObject", "Tagged", "Bool"}}

\* the last call was a setter call on x that returned 0
AssignedOk(x) == out.fn = "set" /\ out.attr = x /\ out.ret = 0 /\ ~out.del

DeletedOk(x) == out.fn = "set" /\ out.attr = x /\ out.ret = 0 /\ out.del

\* o carries the sentinel value of the representation
IsSentinelValue(rep, o) ==
    IF rep = "Float"
    THEN Heap[o].type = "float" /\ Heap[o].fval = CPY_FLOAT_ERROR
    ELSE Heap[o].type = "int" /\ Heap[o].ival = CPY_LL_INT_ERROR

\* C1 (as claimed): a float or int16/32/64 attribute that is not
\* always_defined is undefined (its getter raises undefined-access) if and
\* only if its bitmap bit is 0.
C1_UndefinedIffBitZero ==
    \A x \in BitmapAttrs :
        ~context[x].always_defined => (RaisesUndefined(x) <=> BitIsZero(x))

\* C1 (amended): such an attribute is undefined -- no successful assign since
\* construction or the last successful delete, and its getter raises
\* undefined-access -- if and only if its slot holds the sentinel and its
\* bitmap bit is 0; a bit of 1 always means defined.
C1_UndefinedIffSentinelAndBitZero ==
    \A x \in BitmapAttrs :
        ~context[x].always_defined =>
            /\ (last[x] = NULL) <=> (HoldsSentinel(x) /\ BitIsZero(x))
            /\ RaisesUndefined(x) <=> (last[x] = NULL)
            /\ ~BitIsZero(x) => last[x] # NULL

\* C1 witness: after a successful assign of a value other than the sentinel
\* the attribute is defined and its bit is still 0
C1_Witness ==
    \E x \in BitmapAttrs :
        /\ ~context[x].always_defined /\ AssignedOk(x)
        /\ ~HoldsSentinel(x) /\ BitIsZero(x) /\ ~RaisesUndefined(x)

\* C2: after a successful set of the sentinel value on a float or
\* int16/32/64 attribute, get returns the sentinel value and does not raise.
C2_SentinelSetThenGet ==
    \A x \in BitmapAttrs :
        (AssignedOk(x) /\ IsSentinelValue(context[x].rep, last[x])) =>
            \A NDEBUG \in BOOLEAN :
                LET g == Getter(St, context[x], NDEBUG)
                IN  /\ g.err = ""
                    /\ HostEq(g.res, last[x])
                    /\ IF context[x].rep = "Float"
                       THEN g.res.fval = CPY_FLOAT_ERROR
                       ELSE g.res.ival = CPY_LL_INT_ERROR

\* C2 witness: the sentinel was just assigned to an attribute that is not
\* always_defined, so that only the bitmap bit tells it from undefined
C2_Witness ==
    \E x \in BitmapAttrs :
        /\ AssignedOk(x) /\ IsSentinelValue(context[x].rep, last[x])
        /\ ~context[x].always_defined /\ HoldsSentinel(x)

\* C3: for an attribute that is not always_defined the getter behaves like
\* an optional variable: it raises undefined-access iff there was no
\* successful assign since construction or the last successful delete, and
\* otherwise returns a value equal to the one last assigned.
C3_GetterRefinesOptional ==
    \A x \in Attrs :
        ~context[x].always_defined =>
            \A NDEBUG \in BOOLEAN :
                LET g == Getter(St, context[x], NDEBUG)
                IN  IF last[x] = NULL
                    THEN g.err = "undefined" /\ g.res.ref = NULL
                    ELSE g.err = "" /\ HostEq(g.res, last[x])

\* C3 witness: a failed setter call on a defined attribute
C3_Witness ==
    /\ out.fn = "set" /\ out.ret = -1
    /\ ~context[out.attr].always_defined /\ last[out.attr] # NULL

\* C4 (as claimed): with always_defined = true no getter raises
\* undefined-access, whatever the slot holds, and no getter reads the bitmap
\* word.
C4_AlwaysDefinedNeverRaises ==
    (out.fn = "get" /\ context[out.attr].always_defined) =>
        (out.err # "undefined" /\ ~out.bitmap_read)

\* C5 (as claimed): no setter call moves an always_defined attribute that is
\* defined to the undefined state.
C5_AlwaysDefinedStaysDefined ==
    [][\A x \in Attrs :
          (context[x].always_defined /\ ~RaisesUndefined(x)) =>
              Getter(StNext, context[x], TRUE).err # "undefined"]_vars

\* C6: with deletable = false a setter call with the null value returns -1
\* with the undeletable error and leaves the slots, the bitmap word and the
\* reference counts unchanged, so that get gives the same result as before.
C6_UndeletableChangesNothing ==
    [][(out'.fn = "set" /\ out'.del /\ ~context[out'.attr].deletable) =>
          /\ out'.ret = -1 /\ out'.err = "undeletable"
          /\ slot' = slot /\ bitmap' = bitmap /\ refcnt' = refcnt
          /\ \A NDEBUG \in BOOLEAN :
                Getter(StNext, context[out'.attr], NDEBUG)
                    = Getter(St, context[out'.attr], NDEBUG)]_vars

\* C6 witness: a refused delete of a defined attribute
C6_Witness ==
    /\ out.fn = "set" /\ out.del /\ out.err = "undeletable"
    /\ ~context[out.attr].deletable /\ last[out.attr] # NULL

\* C7: a setter call that fails with type-mismatch or with an unboxing or
\* narrowing failure returns -1 and leaves the slots, the bitmap word and
\* the reference counts unchanged; the attribute makes no transition.
C7_FailedSetChangesNothing ==
    [][(out'.fn = "set" /\ out'.err \in {"TypeError", "OverflowError"}) =>
          /\ out'.ret = -1
          /\ slot' = slot /\ bitmap' = bitmap /\ refcnt' = refcnt
          /\ last' = last
          /\ RaisesUndefined(out'.attr)
                <=> (Getter(StNext, context[out'.attr], TRUE).err = "undefined")]_vars

\* C7 witness: a narrowing failure on a defined attribute
C7_Witness ==
    /\ out.fn = "set" /\ out.err = "OverflowError" /\ out.ret = -1
    /\ last[out.attr] # NULL

\* attribute x holds a reference to object o through its slot
RefersTo(x, o) ==
    \/ context[x].rep = "PyObject" /\ slot[context[x].offset] = o
    \/ /\ context[x].rep = "Tagged"
       /\ CPyTagged_CheckLong(slot[context[x].offset])
       /\ slot[context[x].offset].ptr = o

\* C8: after each setter call the instance holds exactly one reference on an
\* object for each boxed or tagged slot that refers to it, and none
\* otherwise.
C8_OneReferencePerSlot ==
    \A o \in Objects : refcnt[o] = Cardinality({x \in Attrs : RefersTo(x, o)})

\* C8 witness: a tagged slot in boxed form after a successful assign
C8_Witness ==
    \E x \in Attrs :
        /\ AssignedOk(x) /\ context[x].rep = "Tagged"
        /\ RefersTo(x, last[x]) /\ refcnt[last[x]] = 1

\* C9: a setter call on a bitmap-backed attribute changes at most its own
\* mask bit in the shared word and leaves the bit, the slot and the getter
\* result of every other bitmap-backed attribute unchanged.
C9_SiblingUnchanged ==
    [][\A x \in BitmapAttrs :
          (out'.fn = "set" /\ out'.attr = x) =>
              /\ bitmap' \ context[x].bitmap.mask = bitmap \ context[x].bitmap.mask
              /\ \A y \in BitmapAttrs \ {x} :
                    /\ is_undefined_via_bitmap(StNext, context[y]) = BitIsZero(y)
                    /\ slot'[context[y].offset] = slot[context[y].offset]
                    /\ Getter(StNext, context[y], TRUE) = Getter(St, context[y], TRUE)]_vars

\* C9 witness: a was just deleted while its sibling b holds the sentinel as
\* a defined value
C9_Witness ==
    /\ BitmapAttrs = Attrs /\ DeletedOk("a")
    /\ HoldsSentinel("b") /\ ~BitIsZero("b") /\ BitIsZero("a")

\* C10: for a boxed, tagged or boolean attribute that is not always_defined
\* the slot holds the sentinel iff the attribute is undefined (no successful
\* assign since construction or the last successful delete); no successful
\* assign stores the sentinel.
C10_SentinelIffUndefined ==
    \A x \in SentinelAttrs :
        ~context[x].always_defined =>
            /\ HoldsSentinel(x) <=> (last[x] = NULL)
            /\ AssignedOk(x) => ~HoldsSentinel(x)

\* C10 witness: False was assigned to a boolean attribute
C10_Witness ==
    \E x \in SentinelAttrs :
        /\ ~context[x].always_defined /\ context[x].rep = "Bool"
        /\ AssignedOk(x) /\ last[x] = Py_False /\ ~HoldsSentinel(x)

\* the boxed setter's acceptance rule for a non-null value
Accepted(c, v) ==
    \/ c.boxed_setter.type = "CPyAttr_ANY"
    \/ PyObject_TypeCheck(v, ResolveType(c.boxed_setter.type))
    \/ c.boxed_setter.optional /\ v = Py_None

\* C11: the boxed-reference setter accepts a non-null value exactly when the
\* type tag is 'any', or the value is an instance of the type of the tag, or
\* optional holds and the value is None; otherwise it raises type-mismatch
\* and returns -1.  With optional = true None is accepted for every tag and
\* get then returns None; with optional = false None is rejected for every
\* tag but 'any'.
C11_BoxedSetterAccepts ==
    [][\A x \in SentinelAttrs, v \in Objects :
          (/\ context[x].rep = "PyObject"
           /\ SetterCall(x, v, CPyAttr_SetterPyObject(St, v, context[x]))) =>
              /\ IF Accepted(context[x], v)
                 THEN out'.ret = 0 /\ out'.err = "" /\ slot'[context[x].offset] = v
                 ELSE out'.ret = -1 /\ out'.err = "TypeError" /\ slot' = slot
              /\ (v = Py_None /\ context[x].boxed_setter.optional) =>
                    /\ out'.ret = 0
                    /\ Getter(StNext, context[x], TRUE).res.ref = Py_None
              /\ (/\ v = Py_None /\ ~context[x].boxed_setter.optional
                  /\ context[x].boxed_setter.type # "CPyAttr_ANY") => out'.ret = -1]_vars

\* C11 witness: None was assigned to an optional attribute declared "list"
C11_Witness ==
    \E x \in SentinelAttrs :
        /\ context[x].rep = "PyObject" /\ context[x].boxed_setter.optional
        /\ context[x].boxed_setter.type = "CPyAttr_LIST"
        /\ AssignedOk(x) /\ last[x] = Py_None /\ slot[context[x].offset] = Py_None

\* C14: the float and int16/32/64 getters raise undefined-access exactly
\* when the slot equals the sentinel, always_defined is false and the bitmap
\* bit is 0; otherwise they return the slot's value; the bitmap word is read
\* only when the slot equals the sentinel and always_defined is false.
C14_BitmapGetterDecision ==
    \A x \in BitmapAttrs :
        (out.fn = "get" /\ out.attr = x) =>
            /\ (out.err # "")
                  <=> (HoldsSentinel(x) /\ ~context[x].always_defined /\ BitIsZero(x))
            /\ out.err \in {"", "undefined"}
            /\ out.err = "undefined" => out.res.ref = NULL
            /\ out.err = "" =>
                  IF context[x].rep = "Float"
                  THEN out.res.type = "float" /\ out.res.fval = slot[context[x].offset]
                  ELSE /\ out.res.type = "int"
                       /\ ToWord(out.res.ival, IntDigits(context[x].rep))
                              = slot[context[x].offset]
            /\ out.bitmap_read => (HoldsSentinel(x) /\ ~context[x].always_defined)

\* C14 witness: a get of an always_defined attribute whose slot holds the
\* sentinel while its bit is 0 returned the sentinel without reading the bitmap
C14_Witness ==
    \E x \in BitmapAttrs :
        /\ out.fn = "get" /\ out.attr = x /\ context[x].always_defined
        /\ HoldsSentinel(x) /\ BitIsZero(x)
        /\ out.err = "" /\ ~out.bitmap_read

\* C16: a getter, whether it succeeds or raises, leaves the slots, the bitmap
\* word and the references of the instance unchanged; a setter writes
\* nothing but the slot of its attribute and, for float and int16/32/64
\* only, its own bitmap bit.
C16_AccessorsWriteOnlyTarget ==
    [][/\ out'.fn = "get" =>
              slot' = slot /\ bitmap' = bitmap /\ refcnt' = refcnt
       /\ out'.fn = "set" =>
              /\ \A y \in Attrs \ {out'.attr} :
                    slot'[context[y].offset] = slot[context[y].offset]
              /\ bitmap' \ context[out'.attr].bitmap.mask
                    = bitmap \ context[out'.attr].bitmap.mask
              /\ context[out'.attr].rep \notin BitmapReps => bitmap' = bitmap]_vars

\* C16 witness: a boolean attribute was deleted while the bitmap word holds
\* the bit of its sibling
C16_Witness ==
    \E x \in SentinelAttrs :
        /\ context[x].rep = "Bool" /\ DeletedOk(x) /\ ~out.was_undefined
        /\ bitmap # {}

\* C17: with deletable = true a delete of an attribute that is already
\* undefined returns 0 with no error, releases no reference and leaves the
\* attribute undefined.
C17_DeleteUndefinedIsNoop ==
    [][(/\ out'.fn = "set" /\ out'.del /\ context[out'.attr].deletable
        /\ EncodesUndefined(St, context[out'.attr])) =>
          /\ out'.ret = 0 /\ out'.err = ""
          /\ refcnt' = refcnt
          /\ slot' = slot /\ bitmap' = bitmap
          /\ EncodesUndefined(StNext, context[out'.attr])]_vars

\* C17 witness: a successful delete of an attribute that was undefined
C17_Witness ==
    \E x \in Attrs :
        /\ DeletedOk(x) /\ out.was_undefined /\ context[x].deletable
        /\ EncodesUndefined(St, context[x])

(***************************************************************************)
(* The setters statement by statement.  A thread executes one setter call  *)
(* as the sequence of its reads and writes of the instance and of the      *)
(* reference counts; the steps of two threads interleave.  A single caller *)
(* makes one call after the other; two concurrent callers make one call    *)
(* each.  The checks that return early (undeletable, type-mismatch, failed *)
(* narrowing) come before any access to the instance and are taken at the  *)
(* start of the call.                                                      *)
(*   thr[t].old    the slot value read by Py_XSETREF / Py_CLEAR            *)
(*   thr[t].word   the bitmap word read by *bitmap |= / &=                 *)
(*   thr[t].stale  the thread wrote back a slot or a bitmap word that had  *)
(*                 changed since the thread read it                        *)
(***************************************************************************)
StepReps == {"PyObject", "Tagged", "Float", "Int32"}

StepValues == {NULL, "str_hi", "i_5", "i_m113", "i_2p63", "f_m113"}

ContextsStep ==
    {c \in ContextsA :
        /\ c.rep \in StepReps /\ ~c.always_defined /\ c.deletable
        /\ c.boxed_setter.type \in {"CPyAttr_ANY", "CPyAttr_UNICODE"}
        /\ ~c.boxed_setter.optional}

\* the outcome of the call's early returns, and the converted value
Entry(c, value) == Setter(Allocated(context), value, c)

\* the value the float and int setters store: tmp, or the sentinel
Stored(c, value) ==
    IF value = NULL THEN Sentinel(c.rep) ELSE Entry(c, value).st.slot[c.offset]

\* the instance after the constructor stored va and vb (NULL: undefined)
Constructed(ctx, va, vb) ==
    LET s0 == Allocated(ctx)
        s1 == IF va = NULL THEN s0 ELSE Setter(s0, va, ctx["a"]).st
    IN  IF vb = NULL THEN s1 ELSE Setter(s1, vb, ctx["b"]).st

InitStep(active) ==
    /\ context \in {ctx \in [Attrs -> ContextsA \cup {ContextB}] :
                        ctx["a"] \in ContextsStep /\ ctx["b"] = ContextB}
    /\ \E va \in StepValues, vb \in StepValues :
          LET s == Constructed(context, va, vb)
          IN  slot = s.slot /\ bitmap = s.bitmap /\ refcnt = s.refcnt
    /\ last = [x \in Attrs |-> NULL]
    /\ out = NoCall
    /\ thr = [t \in Threads |-> IF t \in active THEN [Off EXCEPT !.pc = "idle"] ELSE Off]

InitSeq == InitStep({"t1"})

InitConc == InitStep(Threads)

\* where a call ends: a single caller goes on to its next call
EndPc == IF \E u \in Threads : thr[u].pc = "off" THEN "idle" ELSE "done"

At(t, pc) == thr[t].pc = pc

Ctx(t) == context[thr[t].attr]

Goto(t, pc) == thr' = [thr EXCEPT ![t].pc = pc]

Return(t, ret, err) ==
    thr' = [thr EXCEPT ![t].pc = EndPc, ![t].ret = ret, ![t].err = err]

Begin(t) ==
    /\ At(t, "idle")
    /\ \E x \in Attrs, value \in StepValues :
          LET c == context[x]
              e == Entry(c, value)
              call == [Off EXCEPT !.attr = x, !.value = value]
          IN  thr' = [thr EXCEPT ![t] =
                  IF e.ret = -1
                  THEN [call EXCEPT !.pc = EndPc, !.ret = -1, !.err = e.err]
                  ELSE [call EXCEPT !.pc =
                          CASE c.rep = "PyObject" /\ value # NULL -> "newref"
                            [] c.rep = "PyObject" /\ value = NULL -> "clear_read"
                            [] c.rep = "Tagged" -> "tag_release"
                            [] OTHER -> "store"]]
    /\ UNCHANGED <<context, slot, bitmap, refcnt, out, last>>

\* Py_NewRef(value)
NewRef(t) ==
    /\ At(t, "newref")
    /\ refcnt' = Py_INCREF(refcnt, thr[t].value)
    /\ Goto(t, "xsetref_read")
    /\ UNCHANGED <<context, slot, bitmap, out, last>>

\* Py_XSETREF: _py_tmp = *attr
XSetRefRead(t) ==
    /\ At(t, "xsetref_read")
    /\ thr' = [thr EXCEPT ![t].pc = "xsetref_write",
                          ![t].old = slot[Ctx(t).offset]]
    /\ UNCHANGED <<context, slot, bitmap, refcnt, out, last>>

\* Py_XSETREF: *attr = value
XSetRefWrite(t) ==
    /\ At(t, "xsetref_write")
    /\ slot' = [slot EXCEPT ![Ctx(t).offset] = thr[t].value]
    /\ thr' = [thr EXCEPT ![t].pc = "xsetref_decref",
                          ![t].stale = (slot[Ctx(t).offset] # thr[t].old)]
    /\ UNCHANGED <<context, bitmap, refcnt, out, last>>

\* Py_XSETREF: Py_XDECREF(_py_tmp)
XSetRefDecref(t) ==
    /\ At(t, "xsetref_decref")
    /\ refcnt' = Py_XDECREF(refcnt, thr[t].old)
    /\ Return(t, 0, "")
    /\ UNCHANGED <<context, slot, bitmap, out, last>>

\* Py_CLEAR: _py_tmp = *attr; if (_py_tmp != NULL)
ClearRead(t) ==
    /\ At(t, "clear_read")
    /\ thr' = [thr EXCEPT ![t].old = slot[Ctx(t).offset],
                          ![t].pc = IF slot[Ctx(t).offset] = NULL
                                    THEN EndPc ELSE "clear_write"]
    /\ UNCHANGED <<context, slot, bitmap, refcnt, out, last>>

\* Py_CLEAR: *attr = NULL
ClearWrite(t) ==
    /\ At(t, "clear_write")
    /\ slot' = [slot EXCEPT ![Ctx(t).offset] = NULL]
    /\ thr' = [thr EXCEPT ![t].pc = "clear_decref",
                          ![t].stale = (slot[Ctx(t).offset] # thr[t].old)]
    /\ UNCHANGED <<context, bitmap, refcnt, out, last>>

\* Py_CLEAR: Py_DECREF(_py_tmp)
ClearDecref(t) ==
    /\ At(t, "clear_decref")
    /\ refcnt' = Py_DECREF(refcnt, thr[t].old)
    /\ Return(t, 0, "")
    /\ UNCHANGED <<context, slot, bitmap, out, last>>

\* if (*attr != CPY_INT_TAG) CPyTagged_DECREF(*attr);
TagRelease(t) ==
    /\ At(t, "tag_release")
    /\ refcnt' = ReleaseTagged(St, Ctx(t).offset).refcnt
    /\ Goto(t, "tag_store")
    /\ UNCHANGED <<context, slot, bitmap, out, last>>

\* *attr = CPyTagged_FromObject(value);  or  *attr = CPY_INT_TAG;
TagStore(t) ==
    /\ At(t, "tag_store")
    /\ LET new == IF thr[t].value = NULL
                  THEN [word |-> CPY_INT_TAG, incref |-> {}]
                  ELSE CPyTagged_FromObject(thr[t].value)
       IN  /\ slot' = [slot EXCEPT ![Ctx(t).offset] = new.word]
           /\ refcnt' = IF new.incref = {} THEN refcnt
                        ELSE Py_INCREF(refcnt, thr[t].value)
    /\ Return(t, 0, "")
    /\ UNCHANGED <<context, bitmap, out, last>>

\* *attr = tmp;  or  *attr = CPY_FLOAT_ERROR / CPY_LL_INT_ERROR;
Store(t) ==
    /\ At(t, "store")
    /\ LET v == Stored(Ctx(t), thr[t].value)
       IN  /\ slot' = [slot EXCEPT ![Ctx(t).offset] = v]
           /\ IF thr[t].value = NULL \/ v = Sentinel(Ctx(t).rep)
              THEN Goto(t, "bitmap_read")
              ELSE Return(t, 0, "")
    /\ UNCHANGED <<context, bitmap, refcnt, out, last>>

\* set_definedness_in_bitmap: the read of *bitmap |= mask / *bitmap &= ~mask
BitmapRead(t) ==
    /\ At(t, "bitmap_read")
    /\ thr' = [thr EXCEPT ![t].pc = "bitmap_write", ![t].word = bitmap]
    /\ UNCHANGED <<context, slot, bitmap, refcnt, out, last>>

\* set_definedness_in_bitmap: the write of *bitmap |= mask / *bitmap &= ~mask
BitmapWrite(t) ==
    /\ At(t, "bitmap_write")
    /\ bitmap' = set_definedness_in_bitmap(
                     [St EXCEPT !.bitmap = thr[t].word], Ctx(t),
                     thr[t].value # NULL).bitmap
    /\ thr' = [thr EXCEPT ![t].pc = EndPc, ![t].ret = 0, ![t].err = "",
                          ![t].stale = (bitmap # thr[t].word)]
    /\ UNCHANGED <<context, slot, refcnt, out, last>>

NextStep ==
    \E t \in Threads :
        \/ Begin(t)
        \/ NewRef(t) \/ XSetRefRead(t) \/ XSetRefWrite(t) \/ XSetRefDecref(t)
        \/ ClearRead(t) \/ ClearWrite(t) \/ ClearDecref(t)
        \/ TagRelease(t) \/ TagStore(t)
        \/ Store(t) \/ BitmapRead(t) \/ BitmapWrite(t)

\* one caller, one call after the other
SpecSeq == InitSeq /\ [][NextStep]_vars

\* two callers, one call each, without synchronisation
SpecConc == InitConc /\ [][NextStep]_vars

(***************************************************************************)
(* Properties of the statement-level setters                               *)
(***************************************************************************)
AllDone == \A t \in Threads : At(t, "done")

\* thread t's successful call set the bit of its attribute (it stored the
\* sentinel as a value) or cleared it (a delete), and the bit is not so
BitLost(t) ==
    /\ At(t, "done") /\ thr[t].ret = 0
    /\ Ctx(t).rep \in BitmapReps
    /\ \/ /\ thr[t].value # NULL
          /\ Stored(Ctx(t), thr[t].value) = Sentinel(Ctx(t).rep)
          /\ is_undefined_via_bitmap(St, Ctx(t))
       \/ /\ thr[t].value = NULL
          /\ ~is_undefined_via_bitmap(St, Ctx(t))

\* C12: two unsynchronised setter calls on sibling attributes of one bitmap
\* word can lose a bit update (the witness is such an outcome), and a call's
\* bit update is lost only when the other call wrote back a bitmap word that
\* had changed since it read it; the later write itself is never lost.
C12_BitLostOnlyByStaleWrite ==
    \A t \in Threads, u \in Threads :
        (/\ t # u /\ AllDone
         /\ thr[t].attr # thr[u].attr
         /\ BitLost(t)) =>
            /\ thr[u].stale
            /\ Ctx(u).rep \in BitmapReps
            /\ ~BitLost(u)

\* C12 witness: set(a, sentinel) returned 0 next to a call on b, a's bit
\* ended as 0 and the getter of a raises undefined
C12_Witness ==
    \E t \in Threads, u \in Threads :
        /\ AllDone
        /\ thr[t].attr = "a" /\ thr[u].attr = "b" /\ thr[u].ret = 0
        /\ thr[t].ret = 0 /\ thr[t].value # NULL
        /\ Ctx(t).rep \in BitmapReps
        /\ slot[Ctx(t).offset] = Sentinel(Ctx(t).rep)
        /\ Getter(St, Ctx(t), TRUE).err = "undefined"

\* the references the instance holds match its slots (as between calls)
Accounted(o) == refcnt[o] = Cardinality({x \in Attrs : RefersTo(x, o)})

\* both calls were successful boxed-reference setter calls on one attribute
SameBoxedAttr ==
    /\ AllDone
    /\ \A t \in Threads : thr[t].ret = 0 /\ Ctx(t).rep = "PyObject"
    /\ \A t \in Threads, u \in Threads : thr[t].attr = thr[u].attr

\* C13: two unsynchronised boxed-reference setter calls on one attribute can
\* break the reference accounting (the witness is such an outcome: the
\* previous value released twice and an installed value never released),
\* and it is broken only when one call wrote the slot after the slot had
\* changed since that call read it.
C13_BrokenOnlyByStaleWrite ==
    (SameBoxedAttr /\ \E o \in Objects : ~Accounted(o)) =>
        \E t \in Threads : thr[t].stale

\* C13 witness: the previous value was released twice, and an installed
\* value keeps its reference although the slot does not refer to it
C13_Witness ==
    /\ SameBoxedAttr
    /\ \E o \in Objects : refcnt[o] = -1 /\ \A x \in Attrs : ~RefersTo(x, o)
    /\ \E o \in Objects : refcnt[o] = 1 /\ \A x \in Attrs : ~RefersTo(x, o)

\* C15: at every step of a boxed-reference or tagged-integer setter call, a
\* slot that is not the undefined sentinel refers to an object on which the
\* instance holds a reference.
C15_SlotReferenceHeld ==
    \A x \in Attrs, o \in Objects : RefersTo(x, o) => refcnt[o] >= 1

\* the same for the boxed-reference slots alone
SlotReferenceHeldBoxed ==
    \A x \in Attrs, o \in Objects :
        (context[x].rep = "PyObject" /\ RefersTo(x, o)) => refcnt[o] >= 1

====
